---- MODULE Spec2Model ----
(***************************************************************************)
(* Model of the WASM script runtime, ext/wasm-runtime/runtime/src/lib.rs:  *)
(* a Runtime owning at most one ScriptModule (the guest instance), the     *)
(* marshaling helpers alloc_bytes / free_bytes / copy_event_*, and the     *)
(* embedder operations load_module, unload_module, trigger_event, tick,    *)
(* call_ref, duplicate_ref, remove_ref and memory_size.                    *)
(*                                                                         *)
(* The guest is the environment.  Every call of a guest export may trap;   *)
(* which calls of an operation trap, and how the guest allocator places    *)
(* its blocks, is an input of the operation (the oracle).  Every operation *)
(* is one action; the guest calls, handle creations/releases and log       *)
(* entries it makes are recorded, in order, in out.trace.                  *)
(***************************************************************************)
EXTENDS Integers, Sequences, FiniteSets, TLC

----------------------------------------------------------------------------
(* Names of the guest exports, lib.rs 19-26 and the "memory" export.        *)
CFX_START == "_start"
CFX_ON_EVENT == "__cfx_on_event"
CFX_ON_TICK == "__cfx_on_tick"
CFX_CALL_REF == "__cfx_call_ref"
CFX_ALLOC == "__cfx_alloc"
CFX_FREE == "__cfx_free"
CFX_DUPLICATE_REF == "__cfx_duplicate_ref"
CFX_REMOVE_REF == "__cfx_remove_ref"
MEMORY == "memory"

(* Sizes of the three startup allocations, make_startup_allocs.             *)
NAME_CAP == 1024
ARGS_CAP == 32768
SOURCE_CAP == 1024

----------------------------------------------------------------------------
(* Bounds of the model.                                                     *)
MaxOff == 5        \* guest heap blocks live at offsets 1..MaxOff
HeadLen == 3       \* a byte string is kept as its length and first HeadLen bytes
MaxRef == 2        \* reference handles 0..MaxRef

Offsets == 1..MaxOff

----------------------------------------------------------------------------
(* Byte strings: [len, head], head = the first min(len, HeadLen) bytes.     *)
Min(a, b) == IF a < b THEN a ELSE b

Zeros(n) == [len |-> n, head |-> [i \in 1..Min(n, HeadLen) |-> 0]]

Bytes(s) == [len |-> Len(s), head |-> SubSeq(s, 1, Min(Len(s), HeadLen))]

(* CStr::to_bytes_with_nul of a C string of strlen n whose bytes are all b. *)
to_bytes_with_nul(n, b) ==
    [len |-> n + 1,
     head |-> [i \in 1..Min(n + 1, HeadLen) |-> IF i <= n THEN b ELSE 0]]

----------------------------------------------------------------------------
(* Guest binaries: the exports with their signatures, and whether the       *)
(* module imports host functions (instantiable only by new_with_wasi).      *)
SigOf(name) ==
    CASE name = CFX_START -> "()->()"
      [] name = CFX_ON_EVENT -> "(i32,i32,i32,i32)->()"
      [] name = CFX_ON_TICK -> "()->()"
      [] name = CFX_CALL_REF -> "(i32,i32,i32)->i32"
      [] name = CFX_ALLOC -> "(i32,i32)->i32"
      [] name = CFX_FREE -> "(i32,i32,i32)->()"
      [] name = CFX_DUPLICATE_REF -> "(i32)->i32"
      [] name = CFX_REMOVE_REF -> "(i32)->()"
      [] OTHER -> "memory"

AllExports ==
    {MEMORY, CFX_START, CFX_ON_EVENT, CFX_ON_TICK, CFX_CALL_REF, CFX_ALLOC,
     CFX_FREE, CFX_DUPLICATE_REF, CFX_REMOVE_REF}

(* A binary exporting the names in S with the signatures of the guest ABI;  *)
(* pages is the size of its linear memory.                                  *)
AbiBin(S, imp, pages) ==
    [valid |-> TRUE, exports |-> [n \in S |-> SigOf(n)], imports |-> imp,
     pages |-> pages]

(* The same, with remove-ref exported as (i32)->i32.                        *)
RetBin(S, imp, pages) ==
    [valid |-> TRUE,
     exports |-> [n \in S |-> IF n = CFX_REMOVE_REF THEN "(i32)->i32" ELSE SigOf(n)],
     imports |-> imp, pages |-> pages]

(* Bytes that are no valid module: Module::new fails.                       *)
InvalidBin ==
    [valid |-> FALSE, exports |-> [n \in {} |-> ""], imports |-> FALSE, pages |-> 0]

(* The binaries of the model, by name.                                      *)
Binaries ==
    {"full", "nomemory", "noalloc", "nofree", "imports", "ret", "minimal", "invalid"}

BinTable ==
    [id \in Binaries |->
    CASE id = "full" -> AbiBin(AllExports, FALSE, 17)
      [] id = "nomemory" -> AbiBin(AllExports \ {MEMORY}, FALSE, 17)
      [] id = "noalloc" -> AbiBin(AllExports \ {CFX_ALLOC}, FALSE, 17)
      [] id = "nofree" ->
            AbiBin({MEMORY, CFX_ALLOC, CFX_ON_EVENT, CFX_CALL_REF}, FALSE, 17)
      [] id = "imports" -> AbiBin({MEMORY, CFX_ALLOC, CFX_FREE, CFX_START}, TRUE, 18)
      [] id = "ret" ->
            RetBin({MEMORY, CFX_ALLOC, CFX_FREE, CFX_ON_TICK, CFX_REMOVE_REF}, FALSE, 1)
      [] id = "minimal" -> AbiBin({MEMORY, CFX_ALLOC}, FALSE, 1)
      [] OTHER -> InvalidBin]

Bin(id) == BinTable[id]

(* instance.get_func(name): any export of that name.                        *)
get_func(bin, name) == name \in DOMAIN Bin(bin).exports

(* instance.get_typed_func::<P, R>(name): the export with that signature.   *)
get_typed_func(bin, name, sig) ==
    name \in DOMAIN Bin(bin).exports /\ Bin(bin).exports[name] = sig

----------------------------------------------------------------------------
(* The oracle of one operation: the guest calls that trap (by their index   *)
(* among the guest calls of the operation) and the allocator's placement.   *)
(*   low / high : the lowest / highest offset that is not live              *)
(*   null       : the allocator returns 0                                   *)
(*   oob        : the block lies outside the linear memory (writes fail)    *)
Strategies == {"low", "high", "null", "oob"}

Oracle(traps, strat) == [traps |-> traps, strat |-> strat]

(* Oracles of an operation that makes at most n guest calls: one call, or   *)
(* none, traps under the first-fit allocator; no call traps under the       *)
(* other placements.                                                        *)
Oracles(n) ==
    {Oracle(t, "low") : t \in {{}} \cup {{i} : i \in 1..n}}
    \cup {Oracle({}, st) : st \in Strategies}

(* Oracles of an operation that makes one guest call and no allocation.     *)
TrapOrNot == {Oracle({}, "low"), Oracle({1}, "low")}

----------------------------------------------------------------------------
(* struct ScriptModule: store, instance and memory are the binary, the     *)
(* guest heap and the guest memory as the host sees them.                   *)
(*   bin          : the instantiated binary                                 *)
(*   on_event     : Option<Func> is Some                                    *)
(*   event_allocs : struct EventAlloc, <<offset, length>> per category      *)
(*   heap[o]      : size of the live block at offset o, -1 when o is not    *)
(*                  live (never returned by the allocator, or passed to     *)
(*                  the deallocator since)                                  *)
(* What the guest memory holds between operations is the guest's business   *)
(* (any export call may rewrite it); the host's writes are events.          *)
NotLive == 0 - 1

EmptyHeap == [o \in Offsets |-> NotLive]
(* Where the guest keeps a result buffer of its own, and a Result           *)
(* Descriptor: outside the blocks the host is given.                        *)
GuestOwn == MaxOff + 1
DescPtr == MaxOff + 2

(* What the reference-call export returns: 0, or the offset of a Result     *)
(* Descriptor {data, length} whose data is 0, the input buffer (echo) or a  *)
(* buffer of the guest's own holding own; full = length is the length of    *)
(* that buffer, otherwise length is 0.  keeps = the guest's deallocator     *)
(* leaves the bytes of a block passed to it in place; otherwise it          *)
(* overwrites them (free-list links, poison).                               *)
GuestResults ==
    {[r |-> 0, data |-> "null", full |-> FALSE, own |-> <<>>, keeps |-> TRUE]}
    \cup [r : {DescPtr}, data : {"echo"}, full : BOOLEAN, own : {<<7, 8>>},
          keeps : BOOLEAN]
    \cup [r : {DescPtr}, data : {"own"}, full : BOOLEAN, own : {<<7, 8>>},
          keeps : {TRUE}]
    \cup {[r |-> DescPtr, data |-> "null", full |-> TRUE, own |-> <<7, 8>>,
           keeps |-> TRUE]}

(* What a block holds after an overwriting deallocator was given it.        *)
Overwritten(b) == [len |-> b.len, head |-> [i \in 1..Len(b.head) |-> 170]]


Live(heap) == {o \in Offsets : heap[o] # NotLive}

(* Events of an operation.                                                  *)
(*   call        : a guest export was invoked; ok = it returned, r = result *)
(*   instantiate : a guest instance (handle h) was created                  *)
(*   drop        : the guest instance (handle h) was released               *)
(*   write       : memory.write of a[2] bytes at offset a[1]; ok = in range *)
(*   store       : self.script = Some(script)                               *)
(*   log         : script_log, exp names the export                         *)
(* For a call of the deallocator, live tells whether the block passed was   *)
(* live when the call was made; for a call of the allocator, size is a[1].  *)
Ev(kind, h, exp, a, ok, r, live) ==
    [ev |-> kind, h |-> h, exp |-> exp, a |-> a, ok |-> ok, r |-> r, live |-> live]

CallEv(h, exp, a, ok, r) == Ev("call", h, exp, a, ok, r, TRUE)
InstEv(h) == Ev("instantiate", h, "", <<>>, TRUE, 0, TRUE)
DropEv(h) == Ev("drop", h, "", <<>>, TRUE, 0, TRUE)
WriteEv(h, off, len, ok) == Ev("write", h, "", <<off, len>>, ok, 0, TRUE)

(* Whether the next guest call of the operation traps, n calls made.        *)
Traps(orc, n) == (n + 1) \in orc.traps

EventAlloc_default == [name |-> <<0, 0>>, args |-> <<0, 0>>, source |-> <<0, 0>>]

(* The ScriptModule literal of new / new_with_wasi.                         *)
ScriptModule(bin) ==
    [bin |-> bin, on_event |-> get_func(bin, CFX_ON_EVENT),
     event_allocs |-> EventAlloc_default, heap |-> EmptyHeap]

(* A fallible step works on a context c = [s, t, n, h]: the ScriptModule,   *)
(* the events of the operation so far, the number of guest calls among      *)
(* them, and the handle name used in the events.                            *)
(* Its result: the context after it, the error ("" = Ok) and the value.     *)
Ctx(s, t, h) == [s |-> s, t |-> t, n |-> 0, h |-> h]
Ok(c, v) == [c |-> c, err |-> "", val |-> v]
Err(c, e) == [c |-> c, err |-> e, val |-> <<0, 0>>]
Emit(c, e) ==
    [c EXCEPT !.t = Append(@, e), !.n = IF e.ev = "call" THEN @ + 1 ELSE @]

----------------------------------------------------------------------------
(* The guest allocator: the offset of the new block, NotLive when the guest *)
(* heap is exhausted (the call traps).                                      *)
GuestAlloc(heap, strat) ==
    LET free == Offsets \ Live(heap)
    IN  IF strat = "null" THEN 0
        ELSE IF free = {} THEN NotLive
        ELSE IF strat = "high" THEN CHOOSE o \in free : \A p \in free : p <= o
        ELSE CHOOSE o \in free : \A p \in free : o <= p

(* ScriptModule::alloc_bytes                                                *)
alloc_bytes(c, orc, bytes) ==
    IF ~get_typed_func(c.s.bin, CFX_ALLOC, "(i32,i32)->i32")
    THEN Err(c, "missing:__cfx_alloc")
    ELSE LET data_ptr == GuestAlloc(c.s.heap, orc.strat)
             args == <<bytes.len, 1>>
         IN  IF Traps(orc, c.n) \/ data_ptr = NotLive
             THEN Err(Emit(c, CallEv(c.h, CFX_ALLOC, args, FALSE, 0)),
                      "trap:__cfx_alloc")
             ELSE LET c1 == Emit(c, CallEv(c.h, CFX_ALLOC, args, TRUE, data_ptr))
                      c2 == IF data_ptr \in Offsets
                            THEN [c1 EXCEPT !.s.heap[data_ptr] = bytes.len]
                            ELSE c1
                  IN  IF orc.strat = "oob"
                      THEN Err(Emit(c2, WriteEv(c.h, data_ptr, bytes.len, FALSE)), "write")
                      ELSE Ok(Emit(c2, WriteEv(c.h, data_ptr, bytes.len, TRUE)),
                              <<data_ptr, bytes.len>>)

(* ScriptModule::free_bytes                                                 *)
free_bytes(c, orc, alloc) ==
    IF ~get_typed_func(c.s.bin, CFX_FREE, "(i32,i32,i32)->()")
    THEN Err(c, "missing:__cfx_free")
    ELSE LET offset == alloc[1]
             length == alloc[2]
             live == offset \in Live(c.s.heap)
             ok == ~Traps(orc, c.n)
             c1 == Emit(c, Ev("call", c.h, CFX_FREE, <<offset, length, 1>>, ok, 0, live))
             c2 == IF offset \in Offsets
                   THEN [c1 EXCEPT !.s.heap[offset] = NotLive]
                   ELSE c1
         IN  IF ok THEN Ok(c2, <<0, 0>>) ELSE Err(c2, "trap:__cfx_free")

(* Then(e, F): F applied to the value of e; e is evaluated once.  The       *)
(* steps of a function are chained with it, like a sequence of `let`s.      *)
Then(e, F(_)) == CHOOSE y \in {F(x) : x \in {e}} : TRUE

(* A faulty variant of make_startup_allocs, for comparison: the args buffer *)
(* is allocated first.                                                      *)
make_startup_allocs_swapped(c, orc) ==
    Then(alloc_bytes(c, orc, Zeros(ARGS_CAP)), LAMBDA r1 :
    IF r1.err # "" THEN r1 ELSE
    Then(alloc_bytes([r1.c EXCEPT !.s.event_allocs.args = r1.val], orc, Zeros(NAME_CAP)),
         LAMBDA r2 :
    IF r2.err # "" THEN r2 ELSE
    Then(alloc_bytes([r2.c EXCEPT !.s.event_allocs.name = r2.val], orc, Zeros(SOURCE_CAP)),
         LAMBDA r3 :
    IF r3.err # "" THEN r3 ELSE
    Ok([r3.c EXCEPT !.s.event_allocs.source = r3.val], <<0, 0>>))))

(* ScriptModule::make_startup_allocs                                        *)
make_startup_allocs(c, orc) ==
    Then(alloc_bytes(c, orc, Zeros(NAME_CAP)), LAMBDA r1 :
    IF r1.err # "" THEN r1 ELSE
    Then(alloc_bytes([r1.c EXCEPT !.s.event_allocs.name = r1.val], orc, Zeros(ARGS_CAP)),
         LAMBDA r2 :
    IF r2.err # "" THEN r2 ELSE
    Then(alloc_bytes([r2.c EXCEPT !.s.event_allocs.args = r2.val], orc, Zeros(SOURCE_CAP)),
         LAMBDA r3 :
    IF r3.err # "" THEN r3 ELSE
    Ok([r3.c EXCEPT !.s.event_allocs.source = r3.val], <<0, 0>>))))

(* A faulty variant of CopyEvent, for comparison: a payload that fits is    *)
(* reported with the capacity of the buffer.                                *)
CopyEvent_capacity(c, orc, cached, bytes) ==
    IF cached[1] = 0 \/ cached[2] < bytes.len
    THEN Then(alloc_bytes(c, orc, bytes), LAMBDA new :
         IF new.err # "" THEN new
         ELSE IF cached[1] # 0
         THEN Then(free_bytes(new.c, orc, cached), LAMBDA f :
              IF f.err # "" THEN f ELSE Ok(f.c, new.val))
         ELSE new)
    ELSE Ok(Emit(c, WriteEv(c.h, cached[1], bytes.len, TRUE)), <<cached[1], cached[2]>>)

(* The body the three copy_event_* functions share, for the cache entry     *)
(* cached and the bytes to pass.  The cache entry is not assigned.          *)
CopyEvent(c, orc, cached, bytes) ==
    IF cached[1] = 0 \/ cached[2] < bytes.len
    THEN Then(alloc_bytes(c, orc, bytes), LAMBDA new :
         IF new.err # "" THEN new
         ELSE IF cached[1] # 0
         THEN Then(free_bytes(new.c, orc, cached), LAMBDA f :
              IF f.err # "" THEN f ELSE Ok(f.c, new.val))
         ELSE new)
    ELSE Ok(Emit(c, WriteEv(c.h, cached[1], bytes.len, TRUE)), <<cached[1], bytes.len>>)

(* ScriptModule::copy_event_name; event_name = [n, b], a C string.          *)
copy_event_name(c, orc, event_name) ==
    CopyEvent(c, orc, c.s.event_allocs.name,
              to_bytes_with_nul(event_name.n, event_name.b))

(* ScriptModule::copy_event_args                                            *)
copy_event_args(c, orc, event_args) ==
    CopyEvent(c, orc, c.s.event_allocs.args, event_args)

(* ScriptModule::copy_event_source; event_source = [n, b], a C string.      *)
copy_event_source(c, orc, event_source) ==
    CopyEvent(c, orc, c.s.event_allocs.source,
              to_bytes_with_nul(event_source.n, event_source.b))

(* The part new and new_with_wasi share after instantiation: on_event,      *)
(* the memory export, the ScriptModule literal and the startup allocations. *)
(* An instance that does not make it is released when the function returns. *)
FinishModule(bin, orc) ==
    IF ~get_func(bin, MEMORY)
    THEN Err(Ctx(ScriptModule(bin), <<InstEv("new"), DropEv("new")>>, "new"), "No memory")
    ELSE Then(make_startup_allocs(Ctx(ScriptModule(bin), <<InstEv("new")>>, "new"), orc),
              LAMBDA r :
              IF r.err # "" THEN Err(Emit(r.c, DropEv("new")), r.err) ELSE r)

(* ScriptModule::new: Module::new, then Instance::new with no imports.      *)
ScriptModule_new(bin, orc) ==
    IF ~Bin(bin).valid THEN Err(Ctx(ScriptModule(bin), <<>>, "new"), "compile")
    ELSE IF Bin(bin).imports THEN Err(Ctx(ScriptModule(bin), <<>>, "new"), "instantiate")
    ELSE FinishModule(bin, orc)

(* ScriptModule::new_with_wasi: the linker provides WASI and the host       *)
(* functions, so imports resolve.                                           *)
ScriptModule_new_with_wasi(bin, orc) ==
    IF ~Bin(bin).valid THEN Err(Ctx(ScriptModule(bin), <<>>, "new"), "compile")
    ELSE FinishModule(bin, orc)

----------------------------------------------------------------------------
(* Option<ScriptModule>                                                     *)
None == [some |-> FALSE]
Some(s) == [some |-> TRUE, v |-> s]

(* static mut LOGGER: Option<LogFunc> and static mut CANONICALIZE_REF:      *)
(* Option<CanonicalizeRefFunc>, process-wide: TRUE = Some.                  *)
VARIABLES LOGGER, CANONICALIZE_REF

(* script_log(format!("{} error: {:?}", exp, err)): the call is the event;  *)
(* ok = the entry reaches the sink, which it does when a LOGGER is          *)
(* registered.                                                              *)
script_log(t, exp, err) == Append(t, Ev("log", "", exp, <<>>, LOGGER, 0, TRUE))

(* Outcome of an operation: the Runtime's script afterwards, the result     *)
(* (err = "" is Ok / a plain return, val the value), the caller's output    *)
(* buffer afterwards and the events of the operation.                       *)
Res(script, err, val, buf, t) ==
    [script |-> script, err |-> err, val |-> val, buf |-> buf, trace |-> t]

(* A faulty variant of StoreScript, for comparison: the assignment that      *)
(* does not drop the previous module.                                       *)
StoreScript_keeping(self, t) ==
    Append(t, Ev("store", "new", "", <<>>, TRUE, 0, TRUE))

(* `self.script = Some(script)` of load_module: the previous module is      *)
(* dropped by the assignment.                                               *)
StoreScript(self, t) ==
    Append(IF self.some THEN Append(t, DropEv("cur")) ELSE t,
           Ev("store", "new", "", <<>>, TRUE, 0, TRUE))

(* A faulty variant of load_module, for comparison: a failed construction   *)
(* clears the Runtime's script.                                             *)
load_module_clearing(self, bin, wasi, orc) ==
    Then(IF wasi THEN ScriptModule_new_with_wasi(bin, orc) ELSE ScriptModule_new(bin, orc),
         LAMBDA r :
    IF r.err # "" THEN Res(None, r.err, 0, Zeros(0), r.c.t)
    ELSE IF get_func(bin, CFX_START)
    THEN IF Traps(orc, r.c.n)
         THEN Res(Some(r.c.s), "trap:_start", 0, Zeros(0),
                  Append(StoreScript(self, r.c.t), CallEv("new", CFX_START, <<>>, FALSE, 0)))
         ELSE Res(Some(r.c.s), "", 0, Zeros(0),
                  Append(StoreScript(self, r.c.t), CallEv("new", CFX_START, <<>>, TRUE, 0)))
    ELSE Res(Some(r.c.s), "", 0, Zeros(0), StoreScript(self, r.c.t)))

(* Runtime::load_module                                                     *)
load_module(self, bin, wasi, orc) ==
    Then(IF wasi THEN ScriptModule_new_with_wasi(bin, orc) ELSE ScriptModule_new(bin, orc),
         LAMBDA r :
    IF r.err # "" THEN Res(self, r.err, 0, Zeros(0), r.c.t)
    ELSE IF get_func(bin, CFX_START)
    THEN IF Traps(orc, r.c.n)
         THEN Res(Some(r.c.s), "trap:_start", 0, Zeros(0),
                  Append(StoreScript(self, r.c.t), CallEv("new", CFX_START, <<>>, FALSE, 0)))
         ELSE Res(Some(r.c.s), "", 0, Zeros(0),
                  Append(StoreScript(self, r.c.t), CallEv("new", CFX_START, <<>>, TRUE, 0)))
    ELSE Res(Some(r.c.s), "", 0, Zeros(0), StoreScript(self, r.c.t)))

(* Runtime::unload_module                                                   *)
unload_module(self) ==
    Res(None, "", 0, Zeros(0), IF self.some THEN <<DropEv("cur")>> ELSE <<>>)

(* The call of the handler in the closure of trigger_event.                 *)
CallOnEvent(c, orc, a) ==
    IF Traps(orc, c.n)
    THEN Err(Emit(c, CallEv(c.h, CFX_ON_EVENT, a, FALSE, 0)), "trap:__cfx_on_event")
    ELSE Ok(Emit(c, CallEv(c.h, CFX_ON_EVENT, a, TRUE, 0)), <<0, 0>>)

(* A faulty variant of wrapper, for comparison: the inputs are marshaled    *)
(* before the handler is looked at.                                         *)
wrapper_eager(c, orc, event_name, args, source) ==
    Then(copy_event_name(c, orc, event_name), LAMBDA ev :
    IF ev.err # "" THEN ev ELSE
    Then(copy_event_args(ev.c, orc, args), LAMBDA ar :
    IF ar.err # "" THEN ar ELSE
    Then(copy_event_source(ar.c, orc, source), LAMBDA src :
    IF src.err # "" THEN src ELSE
    IF ~c.s.on_event THEN Ok(src.c, <<0, 0>>) ELSE
    CallOnEvent(src.c, orc, <<ev.val[1], ar.val[1], ar.val[2], src.val[1]>>))))

(* The closure wrapper of trigger_event.                                    *)
wrapper(c, orc, event_name, args, source) ==
    IF ~c.s.on_event THEN Ok(c, <<0, 0>>) ELSE
    Then(copy_event_name(c, orc, event_name), LAMBDA ev :
    IF ev.err # "" THEN ev ELSE
    Then(copy_event_args(ev.c, orc, args), LAMBDA ar :
    IF ar.err # "" THEN ar ELSE
    Then(copy_event_source(ar.c, orc, source), LAMBDA src :
    IF src.err # "" THEN src ELSE
    CallOnEvent(src.c, orc, <<ev.val[1], ar.val[1], ar.val[2], src.val[1]>>))))

(* Runtime::trigger_event                                                   *)
trigger_event(self, orc, event_name, args, source) ==
    IF self.some
    THEN Then(wrapper(Ctx(self.v, <<>>, "cur"), orc, event_name, args, source), LAMBDA w :
         IF w.err # ""
         THEN Res(None, w.err, 0, Zeros(0),
                  script_log(Append(w.c.t, DropEv("cur")), CFX_ON_EVENT, w.err))
         ELSE Res(Some(w.c.s), "", 0, Zeros(0), w.c.t))
    ELSE Res(self, "", 0, Zeros(0), <<>>)

(* The first length bytes of a byte string.                                 *)
Slice(b, length) ==
    [len |-> length, head |-> SubSeq(b.head, 1, Min(length, Len(b.head)))]

(* Result of call_call_ref: as of a fallible step, with ret_buf afterwards. *)
RefErr(r, ret_buf) == [c |-> r.c, err |-> r.err, val |-> 0, buf |-> ret_buf]
RefOk(c, val, ret_buf) == [c |-> c, err |-> "", val |-> val, buf |-> ret_buf]

(* The Result Descriptor {data, length} the guest left at g.r, for an input *)
(* buffer args_guest holding args.                                          *)
Descriptor(g, args_guest, args) ==
    [data |-> CASE g.data = "null" -> 0
                [] g.data = "echo" -> args_guest[1]
                [] OTHER -> GuestOwn,
     length |-> IF ~g.full THEN 0
                ELSE IF g.data = "echo" THEN args.len ELSE Len(g.own)]

(* What the guest memory holds at the descriptor's data when call_call_ref  *)
(* reads it, i.e. after the input buffer has been passed to free_bytes.     *)
MemAtData(g, args) ==
    IF g.data = "echo" THEN (IF g.keeps THEN args ELSE Overwritten(args))
    ELSE Bytes(g.own)

(* Whether offset o is in a live block: a block of the guest's own is.      *)
InLive(heap, o) == o \in Offsets => o \in Live(heap)

(* A faulty variant of ReadResult, for comparison: the output buffer is not *)
(* cleared when the descriptor holds no value.                              *)
ReadResult_keeping(c, g, args_guest, args, ret_buf) ==
    IF g.r = 0 THEN RefOk(c, 0, ret_buf) ELSE
    LET scrobj == Descriptor(g, args_guest, args)
        c1 == Emit(c, Ev("read", c.h, "", <<g.r>>, TRUE, 0, TRUE))
    IN  IF scrobj.data = 0 \/ scrobj.length = 0 THEN RefOk(c1, 0, ret_buf)
        ELSE RefOk(Emit(c1, Ev("copy", c.h, "", <<scrobj.data, scrobj.length>>, TRUE, 0,
                               InLive(c.s.heap, scrobj.data))),
                   scrobj.length, Slice(MemAtData(g, args), scrobj.length))

(* The end of call_call_ref, from `if scrobj == 0`, after a reference call  *)
(* that returned g.r.  Events: read = the Result Descriptor is read at      *)
(* a[1]; copy = a[2] bytes at a[1] are copied out, live = from a live block.*)
ReadResult(c, g, args_guest, args, ret_buf) ==
    IF g.r = 0 THEN RefOk(c, 0, ret_buf) ELSE
    LET scrobj == Descriptor(g, args_guest, args)
        c1 == Emit(c, Ev("read", c.h, "", <<g.r>>, TRUE, 0, TRUE))
    IN  IF scrobj.data = 0 \/ scrobj.length = 0 THEN RefOk(c1, 0, Zeros(0))
        ELSE RefOk(Emit(c1, Ev("copy", c.h, "", <<scrobj.data, scrobj.length>>, TRUE, 0,
                               InLive(c.s.heap, scrobj.data))),
                   scrobj.length, Slice(MemAtData(g, args), scrobj.length))

(* The reference call of call_call_ref.                                     *)
CallCallRef(c, orc, g, a) ==
    IF Traps(orc, c.n)
    THEN Err(Emit(c, CallEv(c.h, CFX_CALL_REF, a, FALSE, 0)), "trap:__cfx_call_ref")
    ELSE Ok(Emit(c, CallEv(c.h, CFX_CALL_REF, a, TRUE, g.r)), <<g.r, 0>>)

(* A faulty variant of call_call_ref, for comparison: `result?` taken        *)
(* before free_bytes, so that a failed reference call leaves the input      *)
(* buffer allocated.                                                        *)
call_call_ref_early(c, orc, g, ref_idx, args, ret_buf) ==
    IF ~get_func(c.s.bin, MEMORY) THEN RefErr(Err(c, "No memory"), ret_buf) ELSE
    IF ~get_typed_func(c.s.bin, CFX_CALL_REF, "(i32,i32,i32)->i32")
    THEN RefErr(Err(c, "missing:__cfx_call_ref"), ret_buf) ELSE
    Then(alloc_bytes(c, orc, args), LAMBDA args_guest :
    IF args_guest.err # "" THEN RefErr(args_guest, ret_buf) ELSE
    Then(CallCallRef(args_guest.c, orc, g, <<ref_idx, args_guest.val[1], args.len>>),
         LAMBDA result :
    IF result.err # "" THEN RefErr(result, ret_buf) ELSE
    Then(free_bytes(result.c, orc, args_guest.val), LAMBDA f :
    IF f.err # "" THEN RefErr(f, ret_buf) ELSE
    ReadResult(f.c, g, args_guest.val, args, ret_buf))))

(* A faulty variant of call_call_ref, for comparison: the input buffer is   *)
(* released after the result has been read.                                 *)
call_call_ref_late(c, orc, g, ref_idx, args, ret_buf) ==
    IF ~get_func(c.s.bin, MEMORY) THEN RefErr(Err(c, "No memory"), ret_buf) ELSE
    IF ~get_typed_func(c.s.bin, CFX_CALL_REF, "(i32,i32,i32)->i32")
    THEN RefErr(Err(c, "missing:__cfx_call_ref"), ret_buf) ELSE
    Then(alloc_bytes(c, orc, args), LAMBDA args_guest :
    IF args_guest.err # "" THEN RefErr(args_guest, ret_buf) ELSE
    Then(CallCallRef(args_guest.c, orc, g, <<ref_idx, args_guest.val[1], args.len>>),
         LAMBDA result :
    Then(IF result.err # "" THEN RefErr(result, ret_buf)
         ELSE ReadResult(result.c, g, args_guest.val, args, ret_buf), LAMBDA rr :
    Then(free_bytes(rr.c, orc, args_guest.val), LAMBDA f :
    IF f.err # "" THEN RefErr(f, ret_buf) ELSE
    IF rr.err # "" THEN RefErr(Err(f.c, rr.err), ret_buf) ELSE
    RefOk(f.c, rr.val, rr.buf)))))

(* call_call_ref; g is what the guest's reference-call export does.         *)
call_call_ref(c, orc, g, ref_idx, args, ret_buf) ==
    IF ~get_func(c.s.bin, MEMORY) THEN RefErr(Err(c, "No memory"), ret_buf) ELSE
    IF ~get_typed_func(c.s.bin, CFX_CALL_REF, "(i32,i32,i32)->i32")
    THEN RefErr(Err(c, "missing:__cfx_call_ref"), ret_buf) ELSE
    Then(alloc_bytes(c, orc, args), LAMBDA args_guest :
    IF args_guest.err # "" THEN RefErr(args_guest, ret_buf) ELSE
    Then(CallCallRef(args_guest.c, orc, g, <<ref_idx, args_guest.val[1], args.len>>),
         LAMBDA result :
    Then(free_bytes(result.c, orc, args_guest.val), LAMBDA f :
    IF f.err # "" THEN RefErr(f, ret_buf) ELSE
    IF result.err # "" THEN RefErr(Err(f.c, result.err), ret_buf) ELSE
    ReadResult(f.c, g, args_guest.val, args, ret_buf))))

(* A faulty variant of call_ref, for comparison: only a failed reference    *)
(* call releases the module.                                                *)
call_ref_lenient(self, orc, g, ref_idx, args, ret_buf) ==
    IF self.some
    THEN Then(call_call_ref(Ctx(self.v, <<>>, "cur"), orc, g, ref_idx, args, ret_buf),
              LAMBDA r :
         IF r.err = "trap:__cfx_call_ref"
         THEN Res(None, r.err, 0, r.buf,
                  script_log(Append(r.c.t, DropEv("cur")), CFX_CALL_REF, r.err))
         ELSE IF r.err # "" THEN Res(Some(r.c.s), r.err, 0, r.buf, r.c.t)
         ELSE Res(Some(r.c.s), "", r.val, r.buf, r.c.t))
    ELSE Res(self, "", 0, ret_buf, <<>>)

(* Runtime::call_ref                                                        *)
call_ref(self, orc, g, ref_idx, args, ret_buf) ==
    IF self.some
    THEN Then(call_call_ref(Ctx(self.v, <<>>, "cur"), orc, g, ref_idx, args, ret_buf),
              LAMBDA r :
         IF r.err # ""
         THEN Res(None, r.err, 0, r.buf,
                  script_log(Append(r.c.t, DropEv("cur")), CFX_CALL_REF, r.err))
         ELSE Res(Some(r.c.s), "", r.val, r.buf, r.c.t))
    ELSE Res(self, "", 0, ret_buf, <<>>)

(* A faulty variant of tick, for comparison: the module is kept after a     *)
(* failed call.                                                             *)
tick_keeping(self, orc) ==
    IF self.some /\ get_func(self.v.bin, CFX_ON_TICK)
    THEN IF Traps(orc, 0)
         THEN Res(self, "trap:__cfx_on_tick", 0, Zeros(0),
                  script_log(<<CallEv("cur", CFX_ON_TICK, <<>>, FALSE, 0)>>,
                             CFX_ON_TICK, "trap:__cfx_on_tick"))
         ELSE Res(self, "", 0, Zeros(0), <<CallEv("cur", CFX_ON_TICK, <<>>, TRUE, 0)>>)
    ELSE Res(self, "", 0, Zeros(0), <<>>)

(* Runtime::tick                                                            *)
tick(self, orc) ==
    IF self.some /\ get_func(self.v.bin, CFX_ON_TICK)
    THEN IF Traps(orc, 0)
         THEN Res(None, "trap:__cfx_on_tick", 0, Zeros(0),
                  script_log(<<CallEv("cur", CFX_ON_TICK, <<>>, FALSE, 0), DropEv("cur")>>,
                             CFX_ON_TICK, "trap:__cfx_on_tick"))
         ELSE Res(self, "", 0, Zeros(0), <<CallEv("cur", CFX_ON_TICK, <<>>, TRUE, 0)>>)
    ELSE Res(self, "", 0, Zeros(0), <<>>)

(* A faulty variant of duplicate_ref, for comparison: without a module the  *)
(* reference is returned as its own duplicate.                              *)
duplicate_ref_echo(self, orc, ref_idx, val) ==
    IF self.some /\ get_typed_func(self.v.bin, CFX_DUPLICATE_REF, "(i32)->i32")
    THEN IF Traps(orc, 0)
         THEN Res(None, "", 0, Zeros(0),
                  script_log(<<CallEv("cur", CFX_DUPLICATE_REF, <<ref_idx>>, FALSE, 0),
                               DropEv("cur")>>,
                             CFX_DUPLICATE_REF, "trap:__cfx_duplicate_ref"))
         ELSE Res(self, "", val, Zeros(0),
                  <<CallEv("cur", CFX_DUPLICATE_REF, <<ref_idx>>, TRUE, val)>>)
    ELSE Res(self, "", ref_idx, Zeros(0), <<>>)

(* Runtime::duplicate_ref; val is what the guest returns.                   *)
duplicate_ref(self, orc, ref_idx, val) ==
    IF self.some /\ get_typed_func(self.v.bin, CFX_DUPLICATE_REF, "(i32)->i32")
    THEN IF Traps(orc, 0)
         THEN Res(None, "", 0, Zeros(0),
                  script_log(<<CallEv("cur", CFX_DUPLICATE_REF, <<ref_idx>>, FALSE, 0),
                               DropEv("cur")>>,
                             CFX_DUPLICATE_REF, "trap:__cfx_duplicate_ref"))
         ELSE Res(self, "", val, Zeros(0),
                  <<CallEv("cur", CFX_DUPLICATE_REF, <<ref_idx>>, TRUE, val)>>)
    ELSE Res(self, "", 0, Zeros(0), <<>>)

(* A faulty variant of remove_ref, for comparison: a failed call is not     *)
(* logged.                                                                  *)
remove_ref_silent(self, orc, ref_idx, val) ==
    IF self.some /\ get_typed_func(self.v.bin, CFX_REMOVE_REF, "(i32)->i32")
    THEN IF Traps(orc, 0)
         THEN Res(None, "", 0, Zeros(0),
                  <<CallEv("cur", CFX_REMOVE_REF, <<ref_idx>>, FALSE, 0), DropEv("cur")>>)
         ELSE Res(self, "", 0, Zeros(0),
                  <<CallEv("cur", CFX_REMOVE_REF, <<ref_idx>>, TRUE, val)>>)
    ELSE Res(self, "", 0, Zeros(0), <<>>)

(* Runtime::remove_ref; val is what the guest returns.                      *)
remove_ref(self, orc, ref_idx, val) ==
    IF self.some /\ get_typed_func(self.v.bin, CFX_REMOVE_REF, "(i32)->i32")
    THEN IF Traps(orc, 0)
         THEN Res(None, "", 0, Zeros(0),
                  script_log(<<CallEv("cur", CFX_REMOVE_REF, <<ref_idx>>, FALSE, 0),
                               DropEv("cur")>>,
                             CFX_REMOVE_REF, "trap:__cfx_remove_ref"))
         ELSE Res(self, "", 0, Zeros(0),
                  <<CallEv("cur", CFX_REMOVE_REF, <<ref_idx>>, TRUE, val)>>)
    ELSE Res(self, "", 0, Zeros(0), <<>>)

(* Runtime::memory_size                                                     *)
memory_size(self) ==
    IF self.some /\ get_func(self.v.bin, MEMORY)
    THEN Res(self, "", Bin(self.v.bin).pages, Zeros(0), <<>>)
    ELSE Res(self, "", 0, Zeros(0), <<>>)

----------------------------------------------------------------------------
(* The Host Function Bridge: the closures new_with_wasi gives the linker.   *)
(* A guest linked with them calls them while one of its exports runs; each  *)
(* returns a value to the guest (err = "": the closure does not trap).      *)
HOST_LOG == "log"
HOST_INVOKE == "invoke"
HOST_CANONICALIZE_REF == "canonicalize_ref"
HOST_INVOKE_REF_FUNC == "invoke_ref_func"

(* call_result::CRITICAL_ERROR of cfx_wasm_rt_types.                        *)
CRITICAL_ERROR == "CRITICAL_ERROR"

(* What invoker::call_native_wrapper and invoker::invoke_ref_func_wrapper   *)
(* return: Ok(result) with the status for the guest, or Err.                *)
NativeResults == {[ok |-> TRUE, v |-> 0], [ok |-> TRUE, v |-> 1], [ok |-> FALSE, v |-> 0]}

(* fn log, as called by the closure of host.log, which drops its Result:    *)
(* read_ok = the guest's (ptr, len) is inside the memory.                   *)
host_log(self, read_ok) ==
    Res(self, "", 0, Zeros(0),
        IF read_ok /\ LOGGER
        THEN <<Ev("log", "cur", HOST_LOG, <<>>, TRUE, 0, TRUE)>>
        ELSE <<>>)

(* The closure of host.invoke; res is what call_native_wrapper returns.     *)
host_invoke(self, res) ==
    IF res.ok THEN Res(self, "", res.v, Zeros(0), <<>>)
    ELSE Res(self, "", CRITICAL_ERROR, Zeros(0), script_log(<<>>, HOST_INVOKE, "delegate"))

(* fn canonicalize_ref; ret is what the registered delegate returns.  The   *)
(* memory export is there in every module that was constructed.             *)
canonicalize_ref(self, ref_idx, ret) ==
    IF ~get_func(self.v.bin, MEMORY) THEN [err |-> "No memory", val |-> 0]
    ELSE IF CANONICALIZE_REF THEN [err |-> "", val |-> ret]
    ELSE [err |-> "Bad WASM runtime. No canonicalize_ref ...", val |-> 0]

(* The closure of host.canonicalize_ref: canonicalize_ref(..).unwrap_or(0)  *)
host_canonicalize_ref(self, ref_idx, ret) ==
    Then(canonicalize_ref(self, ref_idx, ret), LAMBDA r :
    Res(self, "", IF r.err = "" THEN r.val ELSE 0, Zeros(0), <<>>))

(* The closure of host.invoke_ref_func; res is what                         *)
(* invoke_ref_func_wrapper returns.                                         *)
host_invoke_ref_func(self, res) ==
    IF res.ok THEN Res(self, "", res.v, Zeros(0), <<>>)
    ELSE Res(self, "", CRITICAL_ERROR, Zeros(0),
             script_log(<<>>, HOST_INVOKE_REF_FUNC, "delegate"))

----------------------------------------------------------------------------
(* The state: the Runtime's script field; the last operation with its       *)
(* inputs, its result, the caller's output buffer after it and its events;  *)
(* and faulted, a history variable: a guest call of trigger_event, tick,    *)
(* call_ref, duplicate_ref or remove_ref has failed since load_module was   *)
(* last called.                                                             *)
VARIABLES script, out, faulted

statics == <<LOGGER, CANONICALIZE_REF>>

vars == <<script, out, faulted, LOGGER, CANONICALIZE_REF>>

FailedCall(t) == \E i \in 1..Len(t) : t[i].ev = "call" /\ ~t[i].ok

(* Inputs of the operations.                                                *)
LoadInputs ==
    [bin : Binaries, wasi : {FALSE}] \cup [bin : {"full", "imports", "nofree"}, wasi : {TRUE}]

(* Events by strlen(event_name), args.len() and strlen(source).             *)
Events ==
    {[name |-> 4, args |-> 2, source |-> 3],
     [name |-> NAME_CAP - 1, args |-> ARGS_CAP, source |-> SOURCE_CAP - 1],
     [name |-> 4, args |-> ARGS_CAP + 1, source |-> 3],
     [name |-> 4, args |-> ARGS_CAP + 2, source |-> 3],
     [name |-> NAME_CAP, args |-> ARGS_CAP + 1, source |-> SOURCE_CAP]}

FewEvents == {e \in Events : e.name = 4 /\ e.args <= ARGS_CAP + 1}

CallInputs ==
    {[ref_idx |-> 1, args |-> <<1, 2, 3>>, buf |-> <<5, 5>>],
     [ref_idx |-> 1, args |-> <<1, 2, 3>>, buf |-> <<>>],
     [ref_idx |-> 2, args |-> <<>>, buf |-> <<5, 5>>]}

FewCallInputs == {i \in CallInputs : i.ref_idx = 1 /\ i.buf # <<>>}

G0 == [r |-> 0, data |-> "null", full |-> FALSE, own |-> <<>>, keeps |-> TRUE]

(* A reference call that returns gets every guest result; one that does     *)
(* not gets one.                                                            *)
CallOracles ==
    [orc : {Oracle({}, "low")}, g : GuestResults]
    \cup [orc : Oracles(3) \cup {Oracle({2, 3}, "low")}, g : {G0}]

FewCallOracles ==
    {o \in CallOracles : o.orc.strat = "low" /\ (o.g.data = "echo" => o.g.full)}

Refs == 1..MaxRef

EventArgs(n) == [len |-> n, head |-> [i \in 1..Min(n, HeadLen) |-> 9]]

Out(op, arg, r) ==
    [op |-> op, arg |-> arg, err |-> r.err, val |-> r.val, buf |-> r.buf,
     trace |-> r.trace]

Init ==
    /\ script = None
    /\ out = [op |-> "new", arg |-> <<>>, err |-> "", val |-> 0, buf |-> Zeros(0),
              trace |-> <<>>]
    /\ faulted = FALSE
    /\ LOGGER = FALSE
    /\ CANONICALIZE_REF = FALSE

LoadModuleOn(I, O) ==
    \E i \in I, orc \in O :
        \E r \in {load_module(script, i.bin, i.wasi, orc)} :
            /\ script' = r.script
            /\ out' = Out("load_module", i, r)
            /\ faulted' = FALSE
            /\ UNCHANGED statics

UnloadModule ==
    \E r \in {unload_module(script)} :
        /\ script' = r.script
        /\ out' = Out("unload_module", <<>>, r)
        /\ UNCHANGED <<faulted, LOGGER, CANONICALIZE_REF>>

TriggerEventOn(E, O) ==
    \E e \in E, orc \in O :
        \E r \in {trigger_event(script, orc, [n |-> e.name, b |-> 116],
                                 EventArgs(e.args), [n |-> e.source, b |-> 115])} :
            /\ script' = r.script
            /\ out' = Out("trigger_event", e, r)
            /\ faulted' = (faulted \/ FailedCall(r.trace))
            /\ UNCHANGED statics

Tick ==
    \E orc \in TrapOrNot :
        \E r \in {tick(script, orc)} :
            /\ script' = r.script
            /\ out' = Out("tick", <<>>, r)
            /\ faulted' = (faulted \/ FailedCall(r.trace))
            /\ UNCHANGED statics

CallRefOn(I, O) ==
    \E i \in I, o \in O :
        \E r \in {call_ref(script, o.orc, o.g, i.ref_idx, Bytes(i.args), Bytes(i.buf))} :
            /\ script' = r.script
            /\ out' = Out("call_ref", [in |-> i, g |-> o.g], r)
            /\ faulted' = (faulted \/ FailedCall(r.trace))
            /\ UNCHANGED statics

DuplicateRef ==
    \E orc \in TrapOrNot, ref_idx \in Refs, val \in 0..MaxRef :
        \E r \in {duplicate_ref(script, orc, ref_idx, val)} :
            /\ script' = r.script
            /\ out' = Out("duplicate_ref", [ref_idx |-> ref_idx], r)
            /\ faulted' = (faulted \/ FailedCall(r.trace))
            /\ UNCHANGED statics

RemoveRef ==
    \E orc \in TrapOrNot, ref_idx \in Refs, val \in 0..MaxRef :
        \E r \in {remove_ref(script, orc, ref_idx, val)} :
            /\ script' = r.script
            /\ out' = Out("remove_ref", [ref_idx |-> ref_idx], r)
            /\ faulted' = (faulted \/ FailedCall(r.trace))
            /\ UNCHANGED statics

MemorySize ==
    \E r \in {memory_size(script)} :
        /\ script' = r.script
        /\ out' = Out("memory_size", <<>>, r)
        /\ UNCHANGED <<faulted, LOGGER, CANONICALIZE_REF>>

(* set_logger                                                               *)
set_logger ==
    /\ LOGGER' = TRUE
    /\ out' = [op |-> "set_logger", arg |-> <<>>, err |-> "", val |-> 0,
               buf |-> Zeros(0), trace |-> <<>>]
    /\ UNCHANGED <<script, faulted, CANONICALIZE_REF>>

(* set_canonicalize_ref                                                     *)
set_canonicalize_ref ==
    /\ CANONICALIZE_REF' = TRUE
    /\ out' = [op |-> "set_canonicalize_ref", arg |-> <<>>, err |-> "", val |-> 0,
               buf |-> Zeros(0), trace |-> <<>>]
    /\ UNCHANGED <<script, faulted, LOGGER>>

(* The guest of the loaded module calls a function of the bridge; it can    *)
(* if it was linked with them, which a module that imports them was.        *)
Linked == script # None /\ Bin(script.v.bin).imports

HostLog ==
    /\ Linked
    /\ \E read_ok \in BOOLEAN :
          \E r \in {host_log(script, read_ok)} :
              /\ script' = r.script
              /\ out' = Out("host_log", [read_ok |-> read_ok], r)
              /\ UNCHANGED <<faulted, LOGGER, CANONICALIZE_REF>>

HostInvoke ==
    /\ Linked
    /\ \E res \in NativeResults :
          \E r \in {host_invoke(script, res)} :
              /\ script' = r.script
              /\ out' = Out("host_invoke", [failed |-> ~res.ok], r)
              /\ UNCHANGED <<faulted, LOGGER, CANONICALIZE_REF>>

HostCanonicalizeRef ==
    /\ Linked
    /\ \E ref_idx \in Refs, ret \in 0..MaxRef :
          \E r \in {host_canonicalize_ref(script, ref_idx, ret)} :
              /\ script' = r.script
              /\ out' = Out("host_canonicalize_ref",
                            [failed |-> ~CANONICALIZE_REF, ref_idx |-> ref_idx], r)
              /\ UNCHANGED <<faulted, LOGGER, CANONICALIZE_REF>>

HostInvokeRefFunc ==
    /\ Linked
    /\ \E res \in NativeResults :
          \E r \in {host_invoke_ref_func(script, res)} :
              /\ script' = r.script
              /\ out' = Out("host_invoke_ref_func", [failed |-> ~res.ok], r)
              /\ UNCHANGED <<faulted, LOGGER, CANONICALIZE_REF>>

----------------------------------------------------------------------------
(* Spec: every operation of the Runtime and the registration of the logger, *)
(* in any order.                                                            *)
LoadModule == LoadModuleOn(LoadInputs, Oracles(4))
TriggerEvent == TriggerEventOn(FewEvents, Oracles(3))
CallRef == CallRefOn(FewCallInputs, FewCallOracles)

Next ==
    \/ LoadModule
    \/ UnloadModule
    \/ TriggerEvent
    \/ Tick
    \/ CallRef
    \/ DuplicateRef
    \/ RemoveRef
    \/ MemorySize
    \/ set_logger

Spec == Init /\ [][Next]_vars

(* SpecEvents: an embedder that loads, unloads and delivers events, with    *)
(* every event of Events and a trap at any guest call of the delivery.      *)
LoadForEvents ==
    LoadModuleOn([bin : {"full", "nofree", "minimal"}, wasi : {FALSE}], Oracles(4))
DeliverEvent == TriggerEventOn(Events, Oracles(7))

NextEvents ==
    \/ LoadForEvents
    \/ UnloadModule
    \/ DeliverEvent

SpecEvents == Init /\ [][NextEvents]_vars

(* SpecCalls: an embedder that loads, unloads and calls references, with    *)
(* every input of CallInputs and every guest behaviour of CallOracles.      *)
LoadForCalls ==
    LoadModuleOn([bin : {"full", "nofree", "minimal", "ret"}, wasi : {FALSE}], Oracles(4))
CallReference == CallRefOn(CallInputs, CallOracles)

NextCalls ==
    \/ LoadForCalls
    \/ UnloadModule
    \/ CallReference

SpecCalls == Init /\ [][NextCalls]_vars

(* SpecHost: an embedder that registers the delegates, loads and unloads    *)
(* modules with the standard-I/O environment and ticks them, and a guest    *)
(* that calls the functions of the bridge.                                  *)
LoadForHost == LoadModuleOn([bin : {"full", "imports"}, wasi : {TRUE}], Oracles(4))

NextHost ==
    \/ LoadForHost
    \/ UnloadModule
    \/ Tick
    \/ set_logger
    \/ set_canonicalize_ref
    \/ HostLog
    \/ HostInvoke
    \/ HostCanonicalizeRef
    \/ HostInvokeRefFunc

SpecHost == Init /\ [][NextHost]_vars

----------------------------------------------------------------------------
(* Reading the events of an operation.                                      *)
IsCall(e, exp) == e.ev = "call" /\ e.exp = exp

(* The positions of the events of t that satisfy P.                         *)
Idx(t, P(_)) == {i \in 1..Len(t) : P(t[i])}

FaultOps == {"trigger_event", "tick", "call_ref", "duplicate_ref", "remove_ref"}
GuestOps == FaultOps \cup {"memory_size"}

(* The result of an operation that found no module: Ok / 0 / nothing, no    *)
(* event, the caller's output buffer as it was passed.                      *)
NoModuleResult(o) ==
    /\ o.err = ""
    /\ o.val = 0
    /\ o.trace = <<>>
    /\ o.op = "call_ref" => o.buf = Bytes(o.arg.in.buf)

(* The handle is released after the (first) failed guest call of t.         *)
ReleasedAfterFailure(t) ==
    \E i, j \in 1..Len(t) :
        /\ t[i].ev = "call" /\ ~t[i].ok
        /\ i < j /\ t[j] = DropEv("cur")

(* C1: once a guest call of trigger_event, tick, call_ref, duplicate_ref or *)
(* remove_ref has failed, the module is released within that operation, and *)
(* until load_module is called again every trigger_event, tick, call_ref,   *)
(* duplicate_ref, remove_ref and memory_size finds no module: no guest      *)
(* export is invoked and the default is returned.                           *)
C1_FaultIsolation ==
    faulted =>
        /\ script = None
        /\ out.op \in GuestOps =>
              \/ FailedCall(out.trace) /\ ReleasedAfterFailure(out.trace)
              \/ NoModuleResult(out)

(* C1 witness: a trigger_event made after a fault, before any load_module.  *)
C1_Witness ==
    faulted /\ out.op = "trigger_event" /\ ~FailedCall(out.trace)

(* C2: when the start export called by load_module fails, load_module       *)
(* returns an error and no module remains loaded.                           *)
C2_StartFailureUnloads ==
    (out.op = "load_module"
        /\ \E i \in 1..Len(out.trace) :
              IsCall(out.trace[i], CFX_START) /\ ~out.trace[i].ok)
    => (out.err # "" /\ script = None)

(* C8: on a Runtime with no module loaded trigger_event, tick and call_ref  *)
(* return Ok, duplicate_ref and memory_size return 0, remove_ref and        *)
(* unload_module do nothing: no error, no guest call, no change of state.   *)
C8_NoModuleNoOps ==
    [][(script = None /\ out'.op \in GuestOps \cup {"unload_module"})
        => (script' = script /\ NoModuleResult(out'))]_vars

(* C8 witness: call_ref was made with nothing loaded and a non-empty        *)
(* output buffer.                                                           *)
C8_Witness ==
    /\ script = None
    /\ out.op = "call_ref" /\ out.trace = <<>> /\ out.arg.in.buf # <<>>

(* A binary that compiles and exports no linear memory.                     *)
LacksMemory(bin) == Bin(bin).valid /\ ~get_func(bin, MEMORY)

(* C9 as claimed: load_module on a binary without a memory export returns   *)
(* an error and leaves no module loaded, whatever was loaded before.        *)
C9_NoMemoryLeavesNone ==
    (out.op = "load_module" /\ LacksMemory(out.arg.bin))
    => (out.err # "" /\ script = None)

(* C9 amended: load_module on a binary without a memory export returns the  *)
(* error "No memory", does not load that binary and leaves the Runtime's    *)
(* script as it was: none if none was loaded, the module loaded before      *)
(* otherwise.                                                               *)
C9_NoMemoryKeepsScript ==
    [][(out'.op = "load_module" /\ LacksMemory(out'.arg.bin))
        => (out'.err = "No memory" /\ script' = script)]_vars

(* C9 witness: such a load was made on a Runtime with a module loaded.      *)
C9_Witness ==
    /\ out.op = "load_module" /\ LacksMemory(out.arg.bin)
    /\ script # None

(* What the new handle does before it is stored: its instantiation and the  *)
(* guest calls made on it.                                                  *)
OfNew(e) == e.h = "new" /\ e.ev \in {"instantiate", "call"}

(* C10 as claimed: when load_module is called while a module is loaded, the *)
(* loaded module is released before the new one is instantiated and before  *)
(* any export of the new one is invoked.                                    *)
C10_OldReleasedFirst ==
    [][(out'.op = "load_module" /\ script # None)
        => \A j \in Idx(out'.trace, OfNew) :
              \E i \in 1..(j - 1) : out'.trace[i] = DropEv("cur")]_vars

(* C10 amended: the Runtime holds at most one module.  When load_module is  *)
(* called while a module is loaded, the new module is instantiated and its  *)
(* allocator is invoked for the three scratch buffers while the old one is  *)
(* still live; the old one is released exactly once, when the new one is    *)
(* stored: after the construction succeeded and before the start export of  *)
(* the new one is invoked.  When the construction fails the old module is   *)
(* not released and stays loaded.                                           *)
C10_OldReleasedAtStore ==
    [][(out'.op = "load_module" /\ script # None)
        => LET t == out'.trace
               drops == Idx(t, LAMBDA e : e = DropEv("cur"))
               stores == Idx(t, LAMBDA e : e.ev = "store")
           IN  IF stores = {}
               THEN drops = {} /\ script' = script /\ out'.err # ""
               ELSE /\ Cardinality(drops) = 1 /\ Cardinality(stores) = 1
                    /\ \A d \in drops, j \in 1..Len(t) :
                          /\ (t[j].ev = "instantiate" \/ IsCall(t[j], CFX_ALLOC)) => j < d
                          /\ (t[j].ev = "store" \/ IsCall(t[j], CFX_START)) => d < j
                    /\ script' # None /\ script'.v.bin = out'.arg.bin]_vars

(* C10 witness: a module was loaded over a loaded one and its start export  *)
(* was invoked.                                                             *)
C10_Witness ==
    /\ out.op = "load_module"
    /\ \E i, j \in 1..Len(out.trace) :
          out.trace[i] = DropEv("cur") /\ IsCall(out.trace[j], CFX_START)

----------------------------------------------------------------------------
(* The three EventAlloc cache entries of a ScriptModule.                    *)
CacheEntries(s) == {s.event_allocs.name, s.event_allocs.args, s.event_allocs.source}

(* A guest allocation made by the operation: a call of the allocator that   *)
(* returned a block.                                                        *)
Allocated(e) == IsCall(e, CFX_ALLOC) /\ e.ok /\ e.r # 0

(* C3: in every state of a loaded module each cache entry is uninitialized  *)
(* (offset 0) or the offset of a live guest allocation at least as large as *)
(* the recorded length; after a delivery that allocated a buffer, that      *)
(* buffer's (offset, length) is a cache entry.                              *)
C3_CacheEntriesLive ==
    script # None =>
        /\ \A e \in CacheEntries(script.v) :
              \/ e[1] = 0
              \/ e[1] \in Live(script.v.heap) /\ script.v.heap[e[1]] >= e[2]
        /\ out.op = "trigger_event" =>
              \A i \in Idx(out.trace, Allocated) :
                  <<out.trace[i].r, out.trace[i].a[1]>> \in CacheEntries(script.v)

(* C4: no block is passed to the guest deallocator unless it is live, i.e.  *)
(* allocated and not passed to the deallocator since (no double free).      *)
C4_NoDoubleFree ==
    \A i \in 1..Len(out.trace) :
        IsCall(out.trace[i], CFX_FREE) => out.trace[i].live

(* A trigger_event that returned Ok after calling the handler; the args     *)
(* offset it passed; the allocator / deallocator calls it made for args     *)
(* (the sizes of the args buffers are above those of name and source).      *)
Delivered(o) ==
    o.op = "trigger_event" /\ o.err = "" /\ \E i \in 1..Len(o.trace) : IsCall(o.trace[i], CFX_ON_EVENT)

HandlerCall(o) == o.trace[CHOOSE i \in 1..Len(o.trace) : IsCall(o.trace[i], CFX_ON_EVENT)]

ArgsTraffic(o) ==
    {i \in 1..Len(o.trace) :
        \/ IsCall(o.trace[i], CFX_ALLOC) /\ o.trace[i].a[1] = o.arg.args
        \/ IsCall(o.trace[i], CFX_FREE) /\ o.trace[i].a[2] >= ARGS_CAP}

(* C5: of two consecutive successful deliveries on one module with          *)
(* args sizes non-increasing, the second makes no allocator and no          *)
(* deallocator call for args and passes the handler the args offset the     *)
(* first one passed.                                                        *)
C5_NonIncreasingArgsReuse ==
    [][(Delivered(out) /\ Delivered(out') /\ out'.arg.args <= out.arg.args)
        => /\ ArgsTraffic(out') = {}
           /\ HandlerCall(out').a[2] = HandlerCall(out).a[2]]_vars

(* C6: when the reference-call export returns 0 and call_ref returns Ok,    *)
(* the length returned is 0 and the caller's output buffer is cleared.      *)
C6_ZeroResultClears ==
    (out.op = "call_ref" /\ out.err = ""
        /\ \E i \in 1..Len(out.trace) :
              IsCall(out.trace[i], CFX_CALL_REF) /\ out.trace[i].ok /\ out.trace[i].r = 0)
    => (out.val = 0 /\ out.buf = Zeros(0))

(* The block allocated at position i of t is passed to the deallocator      *)
(* exactly once, live, after the reference-call export has returned.        *)
FreedOnceAfterCall(t, i) ==
    /\ Cardinality({j \in 1..Len(t) : IsCall(t[j], CFX_FREE) /\ t[j].a[1] = t[i].r}) = 1
    /\ \A j \in 1..Len(t) :
          (IsCall(t[j], CFX_FREE) /\ t[j].a[1] = t[i].r)
          => /\ t[j].live
             /\ \E k \in (i + 1)..(j - 1) : IsCall(t[k], CFX_CALL_REF)

(* C7 as claimed: in every call_ref in which the input buffer was           *)
(* allocated, the buffer is passed to the deallocator exactly once, after   *)
(* the reference call, and is not live when call_ref returns.               *)
C7_InputFreedOnce ==
    [][(out'.op = "call_ref" /\ script # None)
        => \A i \in Idx(out'.trace, Allocated) :
              /\ FreedOnceAfterCall(out'.trace, i)
              /\ script' # None => out'.trace[i].r \notin Live(script'.v.heap)]_vars

(* C7 amended: in every call_ref in which alloc_bytes succeeded (the        *)
(* allocator returned a block and the input was written into it) the        *)
(* reference-call export is invoked; if the guest exports the deallocator   *)
(* with the ABI signature the block is passed to it exactly once, after the *)
(* reference call has returned, whether that call returned a result, no     *)
(* result or failed, and is not live when call_ref returns; if the guest    *)
(* does not export it, no deallocator call is made, call_ref returns an     *)
(* error and the module is released.  When the write of the input fails,    *)
(* neither the reference-call export nor the deallocator is invoked, and    *)
(* call_ref returns an error and releases the module.                       *)
C7_WrittenInputFreedOnce ==
    [][(out'.op = "call_ref" /\ script # None)
        => LET t == out'.trace
           IN  \A i \in Idx(t, Allocated) :
                  IF ~t[i + 1].ok
                  THEN /\ \A j \in 1..Len(t) :
                             ~IsCall(t[j], CFX_CALL_REF) /\ ~IsCall(t[j], CFX_FREE)
                       /\ out'.err = "write" /\ script' = None
                  ELSE /\ \E k \in 1..Len(t) : IsCall(t[k], CFX_CALL_REF)
                       /\ IF get_typed_func(script.v.bin, CFX_FREE, "(i32,i32,i32)->()")
                          THEN /\ FreedOnceAfterCall(t, i)
                               /\ script' # None => t[i].r \notin Live(script'.v.heap)
                          ELSE /\ \A j \in 1..Len(t) : ~IsCall(t[j], CFX_FREE)
                               /\ out'.err = "missing:__cfx_free" /\ script' = None]_vars

(* C7 witness: a call_ref whose reference call failed and whose input       *)
(* buffer was passed to the deallocator afterwards.                         *)
C7_Witness ==
    /\ out.op = "call_ref"
    /\ \E k, j \in 1..Len(out.trace) :
          /\ IsCall(out.trace[k], CFX_CALL_REF) /\ ~out.trace[k].ok
          /\ k < j /\ IsCall(out.trace[j], CFX_FREE) /\ out.trace[j].live

----------------------------------------------------------------------------
(* The guest export an operation is there to invoke, and the error of a     *)
(* failed call of an export.                                                *)
OpExport(op) ==
    CASE op = "trigger_event" -> CFX_ON_EVENT
      [] op = "tick" -> CFX_ON_TICK
      [] op = "call_ref" -> CFX_CALL_REF
      [] op = "duplicate_ref" -> CFX_DUPLICATE_REF
      [] op = "remove_ref" -> CFX_REMOVE_REF
      [] OTHER -> ""

TrapErr(exp) ==
    CASE exp = CFX_ON_EVENT -> "trap:__cfx_on_event"
      [] exp = CFX_ON_TICK -> "trap:__cfx_on_tick"
      [] exp = CFX_CALL_REF -> "trap:__cfx_call_ref"
      [] OTHER -> ""

(* The call of the operation's export failed.                               *)
ExportFailed(o) ==
    /\ o.op \in FaultOps
    /\ \E i \in 1..Len(o.trace) : IsCall(o.trace[i], OpExport(o.op)) /\ ~o.trace[i].ok

(* The log entries of the operation: the calls of script_log (entries),     *)
(* and those that reached the logger sink (emitted).                        *)
LogCalls(o) == {i \in 1..Len(o.trace) : o.trace[i].ev = "log"}
LogEmitted(o) == {i \in LogCalls(o) : o.trace[i].ok}

(* C11 as claimed: when the export invoked by an operation fails,           *)
(* trigger_event, tick and call_ref return that error, duplicate_ref        *)
(* returns 0 and remove_ref returns normally, one log entry naming the      *)
(* export is emitted and the module is released.                            *)
C11_FailureLoggedOnce ==
    ExportFailed(out) =>
        /\ script = None
        /\ out.err = TrapErr(OpExport(out.op)) /\ out.val = 0
        /\ Cardinality(LogEmitted(out)) = 1
        /\ \A i \in LogEmitted(out) : out.trace[i].exp = OpExport(out.op)

(* The deallocator call of call_ref failed or could not be made.            *)
FreeErrors == {"missing:__cfx_free", "trap:__cfx_free"}

(* C11 amended: when the export invoked by an operation fails, the module   *)
(* is released and script_log is called exactly once, with a message that   *)
(* names the export; that entry reaches the sink if a logger is registered  *)
(* and nothing is emitted otherwise.  trigger_event and tick return the     *)
(* error of the call; call_ref returns it unless releasing the input buffer *)
(* fails as well, and returns that later error then; duplicate_ref returns  *)
(* 0 and remove_ref returns normally.                                       *)
C11_FailureLoggedIfRegistered ==
    ExportFailed(out) =>
        /\ script = None
        /\ out.val = 0
        /\ \/ out.err = TrapErr(OpExport(out.op))
           \/ out.op = "call_ref" /\ out.err \in FreeErrors
        /\ Cardinality(LogCalls(out)) = 1
        /\ \A i \in LogCalls(out) :
              out.trace[i].exp = OpExport(out.op) /\ out.trace[i].ok = LOGGER

(* C11 witness: a duplicate_ref whose guest call failed, with a logger      *)
(* registered.                                                              *)
C11_Witness ==
    ExportFailed(out) /\ out.op = "duplicate_ref" /\ LOGGER /\ LogEmitted(out) # {}

----------------------------------------------------------------------------
(* C12: on a loaded module whose guest does not export duplicate-ref        *)
(* (remove-ref) with the signature of the guest ABI, duplicate_ref returns  *)
(* 0 (remove_ref does nothing): no guest call, no log entry, the module     *)
(* stays loaded; a guest that exports it with the signature of the ABI has  *)
(* it invoked with the handle passed through.                               *)
C12_OptionalRefExports ==
    [][(script # None /\ out'.op \in {"duplicate_ref", "remove_ref"})
        => IF get_typed_func(script.v.bin, OpExport(out'.op), SigOf(OpExport(out'.op)))
           THEN \E i \in 1..Len(out'.trace) :
                   /\ IsCall(out'.trace[i], OpExport(out'.op))
                   /\ out'.trace[i].a = <<out'.arg.ref_idx>>
           ELSE out'.trace = <<>> /\ out'.val = 0 /\ script' = script]_vars

----------------------------------------------------------------------------
(* A call_ref that returned Ok after a reference call that returned a       *)
(* Result Descriptor; the descriptor the guest left.                        *)
GotDescriptor(o) ==
    /\ o.op = "call_ref" /\ o.err = ""
    /\ \E i \in 1..Len(o.trace) :
          IsCall(o.trace[i], CFX_CALL_REF) /\ o.trace[i].ok /\ o.trace[i].r # 0

InputBlock(o) ==
    LET i == CHOOSE i \in 1..Len(o.trace) : IsCall(o.trace[i], CFX_ALLOC)
    IN  <<o.trace[i].r, o.trace[i].a[1]>>

DescriptorOf(o) == Descriptor(o.arg.g, InputBlock(o), Bytes(o.arg.in.args))

(* The descriptor is read as the claim says: no value when data or length   *)
(* is 0, otherwise the length bytes of guest memory at data replace the     *)
(* content of the output buffer and length is returned.                     *)
DescriptorHonoured(o) ==
    IF DescriptorOf(o).data = 0 \/ DescriptorOf(o).length = 0
    THEN o.val = 0 /\ o.buf = Zeros(0)
    ELSE /\ o.val = DescriptorOf(o).length
         /\ o.buf = Slice(MemAtData(o.arg.g, Bytes(o.arg.in.args)), o.val)

(* The guest echoes its input: the descriptor is the input buffer.          *)
Echoes(o) == o.arg.g.data = "echo" /\ o.arg.g.full

(* C13 as claimed: the descriptor is honoured, and for a guest that echoes  *)
(* its input the output is the input and the returned length its length.    *)
C13_EchoReturnsInput ==
    GotDescriptor(out) =>
        /\ DescriptorHonoured(out)
        /\ Echoes(out) =>
              out.val = Len(out.arg.in.args) /\ out.buf = Bytes(out.arg.in.args)

(* C13 amended: the descriptor is honoured, the bytes being those the guest *)
(* memory holds at data after the input buffer has been passed to the       *)
(* deallocator; for a guest that echoes its input the returned length is    *)
(* the length of the input, and the output is the input if the guest's      *)
(* deallocator leaves the bytes of a freed block in place: call_ref(1,      *)
(* [1,2,3]) returns 3 and, for such a guest, output [1,2,3].                *)
C13_ResultCopied ==
    GotDescriptor(out) =>
        /\ DescriptorHonoured(out)
        /\ Echoes(out) =>
              /\ out.val = Len(out.arg.in.args)
              /\ out.arg.g.keeps => out.buf = Bytes(out.arg.in.args)

(* C13 witness: call_ref(1, [1,2,3]) on an echoing guest returned 3 and     *)
(* [1,2,3] over an output buffer that held other bytes.                     *)
C13_Witness ==
    /\ GotDescriptor(out) /\ Echoes(out)
    /\ out.arg.in = [ref_idx |-> 1, args |-> <<1, 2, 3>>, buf |-> <<5, 5>>]
    /\ out.val = 3 /\ out.buf = Bytes(<<1, 2, 3>>)

----------------------------------------------------------------------------
(* C14: trigger_event on a loaded module whose guest exports no event       *)
(* handler returns Ok and does nothing: no guest call (allocator,           *)
(* deallocator, handler), no write to guest memory, the cache and the       *)
(* loaded module unchanged.                                                 *)
C14_NoHandlerNoGuestCall ==
    [][(script # None /\ ~get_func(script.v.bin, CFX_ON_EVENT)
            /\ out'.op = "trigger_event")
        => (out'.err = "" /\ out'.trace = <<>> /\ script' = script)]_vars

(* C14 witness: an event whose args exceed the startup capacity was         *)
(* delivered to a loaded module without a handler.                          *)
C14_Witness ==
    /\ script # None /\ ~get_func(script.v.bin, CFX_ON_EVENT)
    /\ out.op = "trigger_event" /\ out.arg.args > ARGS_CAP

----------------------------------------------------------------------------
(* The functions of the bridge that use a delegate.                         *)
DelegateOps == {"host_invoke", "host_invoke_ref_func", "host_canonicalize_ref"}

(* C15: when the delegate of invoke, invoke_ref_func or canonicalize_ref    *)
(* fails or is not registered, the failure is logged (script_log is called) *)
(* and the guest gets a value back: the call does not trap and the module   *)
(* is not released.                                                         *)
C15_DelegateFailureLogged ==
    [][(out'.op \in DelegateOps /\ out'.arg.failed)
        => /\ LogCalls(out') # {}
           /\ out'.err = ""
           /\ script' = script /\ script' # None]_vars

----------------------------------------------------------------------------
(* The payload fits the cached buffer.                                      *)
Fits(cached, len) == cached[1] # 0 /\ cached[2] >= len

(* The number of events a category contributes to a delivery that gets as   *)
(* far as the handler: the write in place, or the allocator call, the write *)
(* and, for a cached buffer, the deallocator call.                          *)
SegLen(cached, len) == IF Fits(cached, len) THEN 1 ELSE IF cached[1] # 0 THEN 3 ELSE 2

(* The payload lengths of an event: name and source with their NUL.         *)
PayloadLen(e) == [name |-> e.name + 1, args |-> e.args, source |-> e.source + 1]

(* Where the events of each category start in such a delivery.              *)
SegStart(ea, len) ==
    [name |-> 1,
     args |-> 1 + SegLen(ea.name, len.name),
     source |-> 1 + SegLen(ea.name, len.name) + SegLen(ea.args, len.args)]

Categories == {"name", "args", "source"}

(* The handler was called by the operation.                                 *)
HandlerCalled(o) ==
    o.op = "trigger_event" /\ \E i \in 1..Len(o.trace) : IsCall(o.trace[i], CFX_ON_EVENT)

(* The offset the handler got for a category.                               *)
HandlerOffset(o, cat) ==
    HandlerCall(o).a[CASE cat = "name" -> 1 [] cat = "args" -> 2 [] OTHER -> 4]

(* C16: when a payload fits the cached buffer of its category it is written *)
(* in place at the cached offset, no allocator or deallocator call is made  *)
(* for the category, the cache entry is unchanged and the handler gets the  *)
(* cached offset and, for args, the length of the payload.                  *)
C16_InPlaceWhenFits ==
    [][(script # None /\ HandlerCalled(out'))
        => LET ea == script.v.event_allocs
               len == PayloadLen(out'.arg)
               t == out'.trace
               misfits == {c \in Categories : ~Fits(ea[c], len[c])}
           IN  /\ \A c \in Categories \ misfits :
                     /\ t[SegStart(ea, len)[c]] = WriteEv("cur", ea[c][1], len[c], TRUE)
                     /\ HandlerOffset(out', c) = ea[c][1]
               /\ HandlerCall(out').a[3] = len.args
               /\ Cardinality({i \in 1..Len(t) : IsCall(t[i], CFX_ALLOC)})
                     = Cardinality(misfits)
               /\ Cardinality({i \in 1..Len(t) : IsCall(t[i], CFX_FREE)})
                     = Cardinality({c \in misfits : ea[c][1] # 0})
               /\ script' # None => script'.v.event_allocs = ea]_vars

(* C16 witness: an event whose three payloads fill the startup buffers      *)
(* exactly was delivered with three writes and the call of the handler.     *)
C16_Witness ==
    /\ Delivered(out) /\ Len(out.trace) = 4
    /\ out.arg = [name |-> NAME_CAP - 1, args |-> ARGS_CAP, source |-> SOURCE_CAP - 1]
    /\ HandlerCall(out).a[3] = ARGS_CAP

----------------------------------------------------------------------------
(* The calls of the allocator an operation made, in order.                  *)
AllocCalls(t) == SelectSeq(t, LAMBDA e : IsCall(e, CFX_ALLOC))

(* A startup allocation failed: the allocator call or the write of the      *)
(* zeros.                                                                   *)
StartupFailed(t) ==
    \E i \in 1..Len(t) : (IsCall(t[i], CFX_ALLOC) \/ t[i].ev = "write") /\ ~t[i].ok

(* C17: a load_module that constructs the module, with or without the       *)
(* standard-I/O environment, calls the allocator exactly three times, for   *)
(* 1024, 32768 and 1024 bytes in this order, records the results as the     *)
(* name, args and source cache entries, and does so before the start export *)
(* is invoked; when an allocation fails load_module returns an error, the   *)
(* start export is not invoked and the module is not stored: what was       *)
(* loaded before stays.                                                     *)
C17_StartupAllocs ==
    [][(out'.op = "load_module")
        => LET t == out'.trace
               al == AllocCalls(t)
               starts == {i \in 1..Len(t) : IsCall(t[i], CFX_START)}
               stored == \E i \in 1..Len(t) : t[i].ev = "store"
           IN  /\ (StartupFailed(t) \/ ~get_typed_func(out'.arg.bin, CFX_ALLOC, "(i32,i32)->i32"))
                     => ~stored
               /\ out'.err = "" => stored
               /\ IF stored
                  THEN /\ Len(al) = 3
                       /\ <<al[1].a, al[2].a, al[3].a>>
                             = <<<<NAME_CAP, 1>>, <<ARGS_CAP, 1>>, <<SOURCE_CAP, 1>>>>
                       /\ script' # None
                       /\ script'.v.event_allocs =
                             [name |-> <<al[1].r, NAME_CAP>>, args |-> <<al[2].r, ARGS_CAP>>,
                              source |-> <<al[3].r, SOURCE_CAP>>]
                       /\ \A i \in 1..Len(t), j \in starts : IsCall(t[i], CFX_ALLOC) => i < j
                  ELSE out'.err # "" /\ starts = {} /\ script' = script]_vars

(* C17 witness: a module with a start export was loaded with the            *)
(* standard-I/O environment over a loaded module.                           *)
C17_Witness ==
    /\ out.op = "load_module" /\ out.arg.wasi /\ out.err = ""
    /\ \E i, j \in 1..Len(out.trace) :
          out.trace[i] = DropEv("cur") /\ IsCall(out.trace[j], CFX_START) /\ out.trace[j].ok

----------------------------------------------------------------------------
(* A marshaling step of the operation failed: a call of the allocator or of *)
(* the deallocator, or a write to guest memory.                             *)
MarshalFailed(t) ==
    \E i \in 1..Len(t) :
        /\ IsCall(t[i], CFX_ALLOC) \/ IsCall(t[i], CFX_FREE) \/ t[i].ev = "write"
        /\ ~t[i].ok

(* The errors of an export that is not there.                               *)
MissingErrors == {"missing:__cfx_alloc", "missing:__cfx_free", "missing:__cfx_call_ref"}

(* The errors of the steps that come before the call of the export the      *)
(* operation is there to invoke.                                            *)
ErrorsBefore(op) ==
    {"missing:__cfx_alloc", "trap:__cfx_alloc", "write", "missing:__cfx_call_ref"}
    \cup (IF op = "trigger_event" THEN FreeErrors ELSE {})

(* C18: in trigger_event and call_ref a failed marshaling step (allocator   *)
(* or deallocator missing or failing, a failed write, the reference-call    *)
(* export missing) releases the module and is returned as the error, and    *)
(* when it comes before the call, the handler / reference-call export is    *)
(* not invoked; a module without the reference-call export is released by   *)
(* its first call_ref, one without duplicate-ref or remove-ref stays loaded *)
(* on duplicate_ref and remove_ref.                                         *)
C18_MarshalFailureIsolates ==
    [][(script # None)
        => LET t == out'.trace
               op == out'.op
           IN  /\ (op \in {"trigger_event", "call_ref"}
                     /\ (MarshalFailed(t) \/ out'.err \in MissingErrors))
                  => /\ out'.err # "" /\ script' = None
                     /\ t[Len(t) - 1] = DropEv("cur")
               /\ (op \in {"trigger_event", "call_ref"} /\ out'.err \in ErrorsBefore(op))
                  => \A i \in 1..Len(t) : ~IsCall(t[i], OpExport(op))
               /\ (op = "call_ref"
                     /\ ~get_typed_func(script.v.bin, CFX_CALL_REF, "(i32,i32,i32)->i32"))
                  => out'.err = "missing:__cfx_call_ref" /\ script' = None
               /\ (op \in {"duplicate_ref", "remove_ref"}
                     /\ ~get_func(script.v.bin, OpExport(op)))
                  => out'.trace = <<>> /\ script' = script]_vars

(* C18 witness: a call_ref on a loaded module without the reference-call    *)
(* export released it.                                                      *)
C18_Witness ==
    /\ out.op = "call_ref" /\ out.err = "missing:__cfx_call_ref"
    /\ script = None /\ DropEv("cur") \in {out.trace[i] : i \in 1..Len(out.trace)}

----------------------------------------------------------------------------
(* C19: in call_ref the input buffer has been passed to the deallocator     *)
(* when the Result Descriptor is read and when the result bytes are copied; *)
(* bytes copied from inside the input buffer (a guest that echoes its       *)
(* input) come from a block that is not live any more.                      *)
C19_ReadAfterFree ==
    out.op = "call_ref" =>
        \A k \in 1..Len(out.trace) :
            out.trace[k].ev \in {"read", "copy"} =>
                /\ \E j \in 1..(k - 1) :
                      /\ IsCall(out.trace[j], CFX_FREE) /\ out.trace[j].ok
                      /\ out.trace[j].a[1] = InputBlock(out)[1]
                /\ (out.trace[k].ev = "copy" /\ out.trace[k].a[1] = InputBlock(out)[1])
                      => ~out.trace[k].live

(* C19 witness: the bytes of an echoed input were copied out of the         *)
(* released input buffer.                                                   *)
C19_Witness ==
    /\ out.op = "call_ref" /\ out.err = "" /\ out.val = 3
    /\ \E k \in 1..Len(out.trace) :
          /\ out.trace[k].ev = "copy" /\ ~out.trace[k].live
          /\ out.trace[k].a = <<InputBlock(out)[1], 3>>

----------------------------------------------------------------------------
(* C20: no event buffer is leaked: every block the host got from the        *)
(* allocator for event marshaling and has not passed to the deallocator is  *)
(* recorded in one of the three cache entries, so at most three are live.   *)
C20_NoEventBufferLeak ==
    (script # None /\ out.op \in {"load_module", "trigger_event"}) =>
        /\ Live(script.v.heap) \subseteq {e[1] : e \in CacheEntries(script.v)}
        /\ Cardinality(Live(script.v.heap)) <= 3

====
